---------------------------- MODULE Spec2Model ----------------------------
(***************************************************************************)
(* AfroVice API (src/main.py): a FastAPI application over SQLAlchemy.      *)
(*                                                                         *)
(* The state is the database (one set of rows per table, with the          *)
(* autoincrement counter of each primary key) and, for every worker thread *)
(* serving a request: the request, the storage session get_db gave it, the *)
(* object the handler added to that session, and the response once the     *)
(* handler has returned or raised.                                         *)
(*                                                                         *)
(* A request is served in three steps, the places where another request    *)
(* can interleave:                                                         *)
(*   Receive  the body is validated, get_db opens a session, a create      *)
(*            handler builds its object and db.add()s it (all local);      *)
(*   Execute  the handler's one database round trip: query(...).all(),     *)
(*            db.get(...), or db.commit() followed by db.refresh();        *)
(*   Close    the finally: of get_db, then the response leaves.            *)
(*                                                                         *)
(* Optional[...] values and nullable columns are sets of at most one       *)
(* element: {} is None, {v} is v.  A column with nullable=False is filled  *)
(* from a required field of the create schema (or from utcnow()), so it    *)
(* holds a plain value.                                                    *)
(*                                                                         *)
(*   db[t]       the committed rows of table t                             *)
(*   seq[t]      the last primary key given in table t                     *)
(*   pc[w]       "idle", "handling" or "finishing"                         *)
(*   req[w]      the request worker w serves                               *)
(*   pending[w]  the object added to w's session and not yet committed     *)
(*   sess[w]     the session get_db gave w's request                       *)
(*   resp[w]     the response of w's request                               *)
(*   opened      the sessions not closed yet                               *)
(*   nreq        the requests accepted (and sessions made) so far          *)
(*   limit, pool, traffic   how many requests arrive, the workers that     *)
(*               serve, the tables whose endpoints are called              *)
(*   seen, writes, created  history, see the actions                       *)
(***************************************************************************)
EXTENDS Integers, FiniteSets, TLC

VARIABLES db, seq, pc, req, pending, sess, resp, seen,
          opened, nreq, limit, pool, traffic, writes, created

vars == <<db, seq, pc, req, pending, sess, resp, seen,
          opened, nreq, limit, pool, traffic, writes, created>>

(***************************************************************************)
(* Bounds of the model.                                                    *)
(***************************************************************************)
MaxRequests == 6
MaxConcRequests == 2
MaxFairRequests == 3

Workers == {"w1", "w2"}
Names == {"a", "b"}
Refs == {1, 2}

\* The instants datetime.utcnow() returns.  No handler compares or orders
\* timestamps, so one instant stands for all.
Times == {1}

None == {}
Some(v) == {v}

EmptyRec == [k \in {} |-> 0]

(***************************************************************************)
(* SQLAlchemy models: the tables and their constraints.                    *)
(***************************************************************************)
Tables == {"Role", "User", "Music_Gender", "Artist", "Artist_Gender", "Event",
           "Presentation", "Presentation_Artist", "Ticket", "Comment"}

\* The tables a POST endpoint inserts into.
Entities == {"Role", "User", "Music_Gender", "Artist", "Event",
             "Presentation", "Ticket", "Comment"}

\* The tables with a GET-by-id endpoint.
GetEntities == {"User", "Artist", "Event", "Presentation"}

\* A row with primary key k exists in table t of database d.
HasId(d, t, k) == \E r \in d[t] : r.id = k

\* The row of table t with primary key k (Session.get).
RowById(d, t, k) == CHOOSE r \in d[t] : r.id = k

\* (changed: the unique constraint is missing)
UniqueOk_off(d, t, o) == TRUE

\* unique=True: Role.name and MusicGender.name.
UniqueOk(d, t, o) ==
    t \in {"Role", "Music_Gender"} => \A r \in d[t] : r.name # o.name

\* (changed: the foreign keys are not enforced)
ForeignKeyOk_off(d, t, o) == TRUE

\* ForeignKey(...) columns; a nullable one is checked only when it is set.
ForeignKeyOk(d, t, o) ==
    CASE t = "User" -> HasId(d, "Role", o.role_id)
      [] t = "Presentation" -> HasId(d, "Event", o.event_id)
      [] t = "Ticket" -> /\ HasId(d, "User", o.user_id)
                         /\ HasId(d, "Presentation", o.presentation_id)
      [] t = "Comment" -> /\ \A k \in o.presentation_id : HasId(d, "Presentation", k)
                          /\ \A k \in o.user_id : HasId(d, "User", k)
      [] OTHER -> TRUE

(***************************************************************************)
(* Pydantic schemas: the create contracts (valid request bodies) and the   *)
(* read contracts (serialisation of an ORM object, from_attributes=True).  *)
(***************************************************************************)
RoleCreate == [name : Names]
UserCreate == [name : {"u"}, email : {"u@x.io"}, photo : {None},
               role_id : Refs, password : {"pw"}]
MusicGenderCreate == [name : Names]
ArtistCreate == [name : {"n"}, photo : {"p"}]
EventCreate == [name : {None}, logo : {None}, price : {10}]
PresentationCreate == [event_id : Refs, date_start : {5}, date_end : {None},
                       flyer : {"f"}]
TicketCreate == [user_id : Refs, presentation_id : Refs]
CommentCreate == [message : {"m"}, presentation_id : {None} \cup {Some(k) : k \in Refs},
                  user_id : {None} \cup {Some(k) : k \in Refs}]

CreateSchema(t) ==
    CASE t = "Role" -> RoleCreate
      [] t = "User" -> UserCreate
      [] t = "Music_Gender" -> MusicGenderCreate
      [] t = "Artist" -> ArtistCreate
      [] t = "Event" -> EventCreate
      [] t = "Presentation" -> PresentationCreate
      [] t = "Ticket" -> TicketCreate
      [] t = "Comment" -> CommentCreate

RoleRead(o) == [id |-> o.id, name |-> o.name]
UserRead(o) == [id |-> o.id, name |-> o.name, email |-> o.email,
                photo |-> o.photo, role_id |-> o.role_id]
MusicGenderRead(o) == [id |-> o.id, name |-> o.name]
ArtistRead(o) == [id |-> o.id, name |-> o.name, photo |-> o.photo]
EventRead(o) == [id |-> o.id, name |-> o.name, logo |-> o.logo, price |-> o.price]
PresentationRead(o) == [id |-> o.id, event_id |-> o.event_id,
                        date_start |-> o.date_start, date_end |-> o.date_end,
                        flyer |-> o.flyer]
TicketRead(o) == [id |-> o.id, user_id |-> o.user_id,
                  presentation_id |-> o.presentation_id]

\* (changed: the user relationship is never loaded)
CommentUser_unloaded(d, o) == {}

\* relationship("User") / relationship("Presentation") of a Comment: the row
\* the foreign key names, None when the key is None.
CommentUser(d, o) == {u \in d["User"] : u.id \in o.user_id}
CommentPresentation(d, o) ==
    {p \in d["Presentation"] : p.id \in o.presentation_id}

CommentRead(d, o) ==
    [id |-> o.id, message |-> o.message, created_at |-> o.created_at,
     user |-> {UserRead(u) : u \in CommentUser(d, o)},
     presentation |-> {PresentationRead(p) : p \in CommentPresentation(d, o)}]

\* response_model of the endpoints of table t applied to ORM object o.
ReadModel(d, t, o) ==
    CASE t = "Role" -> RoleRead(o)
      [] t = "User" -> UserRead(o)
      [] t = "Music_Gender" -> MusicGenderRead(o)
      [] t = "Artist" -> ArtistRead(o)
      [] t = "Event" -> EventRead(o)
      [] t = "Presentation" -> PresentationRead(o)
      [] t = "Ticket" -> TicketRead(o)
      [] t = "Comment" -> CommentRead(d, o)

(***************************************************************************)
(* The ORM objects the create handlers build before db.add().              *)
(***************************************************************************)
\* create_user_swapped is create_user changed: name and email are swapped.
create_role(role, at) == [name |-> role.name, created_at |-> at]
create_user_swapped(user, at) ==
    [name |-> user.email, email |-> user.name, password |-> user.password,
     role_id |-> user.role_id, photo |-> user.photo, created_at |-> at]

create_user(user, at) ==
    [name |-> user.name, email |-> user.email, password |-> user.password,
     role_id |-> user.role_id, photo |-> user.photo, created_at |-> at]
create_music_gender(gender, at) == [name |-> gender.name, created_at |-> at]
create_artist(artist, at) ==
    [name |-> artist.name, photo |-> artist.photo, created_at |-> at]
create_event(event, at) ==
    [name |-> event.name, logo |-> event.logo, price |-> event.price,
     created_at |-> at]
create_presentation(presentation, at) ==
    [event_id |-> presentation.event_id, date_start |-> presentation.date_start,
     date_end |-> presentation.date_end, flyer |-> presentation.flyer,
     created_at |-> at]
create_ticket(ticket, at) ==
    [user_id |-> ticket.user_id, presentation_id |-> ticket.presentation_id,
     created_at |-> at]
create_comment(comment, at) ==
    [message |-> comment.message, presentation_id |-> comment.presentation_id,
     user_id |-> comment.user_id, created_at |-> at]

NewObject(t, body, at) ==
    CASE t = "Role" -> create_role(body, at)
      [] t = "User" -> create_user(body, at)
      [] t = "Music_Gender" -> create_music_gender(body, at)
      [] t = "Artist" -> create_artist(body, at)
      [] t = "Event" -> create_event(body, at)
      [] t = "Presentation" -> create_presentation(body, at)
      [] t = "Ticket" -> create_ticket(body, at)
      [] t = "Comment" -> create_comment(body, at)

\* The row an INSERT of object o stores: o with the next primary key.
Stored(o, k) == [c \in DOMAIN o \cup {"id"} |-> IF c = "id" THEN k ELSE o[c]]

(***************************************************************************)
(* Requests and responses.                                                 *)
(***************************************************************************)
NoReq == [op |-> "none", entity |-> "none", body |-> EmptyRec]
NoResp == [status |-> 0, body |-> EmptyRec]

Requests ==
    {[op |-> "list", entity |-> t, body |-> EmptyRec] : t \in Entities}
    \cup {[op |-> "get", entity |-> t, body |-> [id |-> k]] :
            t \in GetEntities, k \in Refs}
    \cup UNION {{[op |-> "create", entity |-> t, body |-> b] :
                   b \in CreateSchema(t) \cup {EmptyRec}} : t \in Entities}

\* Request validation of the contract layer: a create body must be an
\* instance of the create schema.
Validates(r) == r.op = "create" => r.body \in CreateSchema(r.entity)

NotFound(t) ==
    CASE t = "User" -> "User not found"
      [] t = "Artist" -> "Artist not found"
      [] t = "Event" -> "Event not found"
      [] t = "Presentation" -> "Presentation not found"

\* SessionLocal(): a new Session for every call; n sessions were made before.
SessionLocal(n) == n + 1

\* (changed: db.close() follows the yield without try/finally, so it is
\* skipped when the handler raises)
get_db_closes_onreturn(status) == status < 400

\* get_db: try: yield db / finally: db.close() -- the session is closed
\* whatever the status the handler ended with.
get_db_closes(status) == TRUE

\* (changed: the key does not advance)
NextId_const(s) == 1

\* The primary key the storage engine gives the next row of a table whose
\* last key was s.
NextId(s) == s + 1

\* (changed: the INSERT replaces the table's rows)
Insert_replace(d, t, o, k) == [d EXCEPT ![t] = {Stored(o, k)}]

\* The database after the INSERT of object o with key k into table t.
Insert(d, t, o, k) == [d EXCEPT ![t] = @ \cup {Stored(o, k)}]

\* (changed: the first row is skipped)
ListRows_skipfirst(d, t) == {ReadModel(d, t, o) : o \in {x \in d[t] : x.id > 1}}

\* list_roles ... list_comments: db.query(Model).all(), serialised by
\* List[...Read] (list_comments joined-loads user and presentation).
ListRows(d, t) == {ReadModel(d, t, o) : o \in d[t]}

\* An exception no handler catches (IntegrityError out of db.commit()).
ServerError == [status |-> 500, body |-> [detail |-> "Internal Server Error"]]

\* (changed: the "if not ...: raise HTTPException(404)" is missing, and
\* serialising None fails)
get_by_id_unchecked(d, t, k) ==
    IF HasId(d, t, k)
      THEN [status |-> 200, body |-> ReadModel(d, t, RowById(d, t, k))]
      ELSE ServerError

\* get_user, get_artist, get_event, get_presentation: db.get(Model, id), 404
\* when there is no such row.
get_by_id(d, t, k) ==
    IF HasId(d, t, k)
      THEN [status |-> 200, body |-> ReadModel(d, t, RowById(d, t, k))]
      ELSE [status |-> 404, body |-> [detail |-> NotFound(t)]]

(***************************************************************************)
(* Initial state: an empty database, every worker idle.  The server runs   *)
(* either with a one-thread pool, serving up to MaxRequests requests one   *)
(* at a time, or with every worker, serving up to MaxConcRequests          *)
(* overlapping requests.  pool, limit and traffic (the tables whose         *)
(* endpoints clients call) are fixed for a run.                            *)
(***************************************************************************)
InitCommon ==
    /\ db = [t \in Tables |-> {}]
    /\ seq = [t \in Tables |-> 0]
    /\ pc = [w \in Workers |-> "idle"]
    /\ req = [w \in Workers |-> NoReq]
    /\ pending = [w \in Workers |-> {}]
    /\ sess = [w \in Workers |-> 0]
    /\ resp = [w \in Workers |-> NoResp]
    /\ seen = [w \in Workers |-> 0]
    /\ opened = {}
    /\ nreq = 0
    /\ writes = 0
    /\ created = [t \in Tables |-> {}]

SeqInit ==
    InitCommon /\ limit = MaxRequests /\ pool = {"w1"} /\ traffic = Entities

ConcInit ==
    InitCommon /\ limit = MaxConcRequests /\ pool = Workers /\ traffic = Entities

\* Every worker serves, clients call only the Role and User endpoints:
\* between them these end in every way a request can end (200, 201, 404,
\* 422, 500).
FairInit ==
    /\ InitCommon
    /\ limit = MaxFairRequests
    /\ pool = Workers
    /\ traffic = {"Role", "User"}

Init == SeqInit \/ ConcInit

(***************************************************************************)
(* Actions.  writes counts the commits so far and seen[w] is its value     *)
(* when worker w's handler talked to the database; created[t] records each *)
(* successful POST to table t, its body and its 201 response.  These three *)
(* are history: no action reads them.                                      *)
(***************************************************************************)
\* A request arrives at an idle worker: dependencies are resolved (get_db
\* opens a fresh session, the body is validated); an invalid body is
\* answered 422 without the handler running; a create handler builds its
\* object, stamps it with utcnow() and adds it to the session.
Receive(w, r, at) ==
    /\ w \in pool
    /\ r.entity \in traffic
    /\ pc[w] = "idle"
    /\ nreq < limit
    /\ nreq' = nreq + 1
    /\ req' = [req EXCEPT ![w] = r]
    /\ sess' = [sess EXCEPT ![w] = SessionLocal(nreq)]
    /\ opened' = opened \cup {SessionLocal(nreq)}
    /\ seen' = [seen EXCEPT ![w] = writes]
    /\ IF ~Validates(r)
         THEN /\ pc' = [pc EXCEPT ![w] = "finishing"]
              /\ resp' = [resp EXCEPT ![w] = [status |-> 422, body |-> EmptyRec]]
              /\ UNCHANGED pending
         ELSE /\ pc' = [pc EXCEPT ![w] = "handling"]
              /\ pending' = [pending EXCEPT ![w] =
                    IF r.op = "create"
                      THEN {NewObject(r.entity, r.body, at)} ELSE {}]
              /\ resp' = [resp EXCEPT ![w] = NoResp]
    /\ UNCHANGED <<db, seq, limit, pool, traffic, writes, created>>

\* GET /roles, /users, /genders, /artists, /events, /presentations,
\* /tickets, /comments.
List(w) ==
    /\ pc[w] = "handling"
    /\ req[w].op = "list"
    /\ resp' = [resp EXCEPT ![w] =
                  [status |-> 200, body |-> [items |-> ListRows(db, req[w].entity)]]]
    /\ seen' = [seen EXCEPT ![w] = writes]
    /\ pc' = [pc EXCEPT ![w] = "finishing"]
    /\ UNCHANGED <<db, seq, req, pending, sess, opened, nreq, limit, pool, traffic,
                   writes, created>>

\* GET /users/{id}, /artists/{id}, /events/{id}, /presentations/{id}.
Get(w) ==
    /\ pc[w] = "handling"
    /\ req[w].op = "get"
    /\ resp' = [resp EXCEPT ![w] = get_by_id(db, req[w].entity, req[w].body.id)]
    /\ seen' = [seen EXCEPT ![w] = writes]
    /\ pc' = [pc EXCEPT ![w] = "finishing"]
    /\ UNCHANGED <<db, seq, req, pending, sess, opened, nreq, limit, pool, traffic,
                   writes, created>>

\* POST, db.commit() succeeds: the INSERT is flushed and committed;
\* db.refresh() and the return serialise the stored row with status 201.
CommitOk(w) ==
    /\ pc[w] = "handling"
    /\ req[w].op = "create"
    /\ \E o \in pending[w] :
         LET t == req[w].entity
             k == NextId(seq[t])
             d == Insert(db, t, o, k)
             out == ReadModel(d, t, Stored(o, k))
         IN /\ UniqueOk(db, t, o)
            /\ ForeignKeyOk(db, t, o)
            /\ db' = d
            /\ seq' = [seq EXCEPT ![t] = k]
            /\ resp' = [resp EXCEPT ![w] = [status |-> 201, body |-> out]]
            /\ created' = [created EXCEPT ![t] =
                  @ \cup {[input |-> req[w].body, output |-> out]}]
    /\ writes' = writes + 1
    /\ seen' = [seen EXCEPT ![w] = writes + 1]
    /\ pending' = [pending EXCEPT ![w] = {}]
    /\ pc' = [pc EXCEPT ![w] = "finishing"]
    /\ UNCHANGED <<req, sess, opened, nreq, limit, pool, traffic>>

\* POST, db.commit() raises IntegrityError (unique or foreign-key
\* violation): the exception is not caught, nothing is stored, the caller
\* gets a 500.
CommitFails(w) ==
    /\ pc[w] = "handling"
    /\ req[w].op = "create"
    /\ \E o \in pending[w] :
         ~(UniqueOk(db, req[w].entity, o) /\ ForeignKeyOk(db, req[w].entity, o))
    /\ resp' = [resp EXCEPT ![w] = ServerError]
    /\ seen' = [seen EXCEPT ![w] = writes]
    /\ pending' = [pending EXCEPT ![w] = {}]
    /\ pc' = [pc EXCEPT ![w] = "finishing"]
    /\ UNCHANGED <<db, seq, req, sess, opened, nreq, limit, pool, traffic, writes, created>>

Execute(w) == List(w) \/ Get(w) \/ CommitOk(w) \/ CommitFails(w)

\* The finally: of get_db closes the session; the response leaves and the
\* worker is free again.  The worker remembers the status it answered.
Close(w) ==
    /\ pc[w] = "finishing"
    /\ opened' = IF get_db_closes(resp[w].status) THEN opened \ {sess[w]} ELSE opened
    /\ pc' = [pc EXCEPT ![w] = "idle"]
    /\ req' = [req EXCEPT ![w] = NoReq]
    /\ resp' = [resp EXCEPT ![w] = [status |-> resp[w].status, body |-> EmptyRec]]
    /\ seen' = [seen EXCEPT ![w] = 0]
    /\ UNCHANGED <<db, seq, pending, sess, nreq, limit, pool, traffic, writes, created>>

Next ==
    \/ \E w \in Workers, r \in Requests, at \in Times : Receive(w, r, at)
    \/ \E w \in Workers : Execute(w)
    \/ \E w \in Workers : Close(w)

Spec == Init /\ [][Next]_vars

\* The thread pool runs every request it has accepted to its end.
FairSpec ==
    /\ FairInit
    /\ [][Next]_vars
    /\ \A w \in Workers : WF_vars(Execute(w)) /\ WF_vars(Close(w))

(***************************************************************************)
(* Properties.  A worker at "finishing" holds the request it served and    *)
(* the response about to leave.                                            *)
(***************************************************************************)
Finishing(w, op) == pc[w] = "finishing" /\ req[w].op = op

\* The 201 responses recorded for table t.
Outputs(t) == {c.output : c \in created[t]}

RECURSIVE TotalRows(_, _)
TotalRows(d, ts) ==
    IF ts = {} THEN 0
    ELSE LET t == CHOOSE x \in ts : TRUE
         IN Cardinality(d[t]) + TotalRows(d, ts \ {t})

\* Every stored row was stored by one successful POST, and every successful
\* POST stored one row.
RowsAreCreations ==
    /\ \A t \in Tables : Cardinality(db[t]) = Cardinality(created[t])
    /\ TotalRows(db, Tables) = writes

\* The rows a create body refers to exist (written out per table).
RefsExist(t, body) ==
    CASE t = "User" -> \E r \in db["Role"] : r.id = body.role_id
      [] t = "Presentation" -> \E e \in db["Event"] : e.id = body.event_id
      [] t = "Ticket" -> /\ \E u \in db["User"] : u.id = body.user_id
                         /\ \E p \in db["Presentation"] : p.id = body.presentation_id
      [] t = "Comment" -> /\ \A k \in body.user_id : \E u \in db["User"] : u.id = k
                          /\ \A k \in body.presentation_id :
                                \E p \in db["Presentation"] : p.id = k
      [] OTHER -> TRUE

\* No stored row of a table with a unique name has the body's name.
NameFree(t, body) ==
    t \in {"Role", "Music_Gender"} => \A r \in db[t] : r.name # body.name

-----------------------------------------------------------------------------
C1_ReadFields(t, b) ==
    IF t = "Comment"
      THEN {"id", "message", "created_at", "user", "presentation"}
      ELSE (DOMAIN b \ {"password"}) \cup {"id"}

-----------------------------------------------------------------------------
\* C2: a list response holds exactly the 201 responses of the rows created
\* so far, in the create response's own shape; as long as nothing was
\* written since, it is what a GET now returns.
C2_ListIsCreated ==
    \A w \in Workers :
      Finishing(w, "list") =>
        /\ resp[w].status = 200
        /\ resp[w].body.items \subseteq Outputs(req[w].entity)
        /\ seen[w] = writes =>
             /\ resp[w].body.items = Outputs(req[w].entity)
             /\ resp[w].body.items = ListRows(db, req[w].entity)

\* A list of two or more rows is about to be returned.
C2_Witness ==
    \E w \in Workers :
      /\ Finishing(w, "list")
      /\ seen[w] = writes
      /\ Cardinality(resp[w].body.items) >= 2

-----------------------------------------------------------------------------
\* C3: GET-by-id answers 404 with the static message for an id no POST
\* created (never a 500), answers with the created row's own 201 response
\* for an id that was created, and stores nothing.
C3_GetById ==
    /\ RowsAreCreations
    /\ \A w \in Workers :
         Finishing(w, "get") =>
           LET t == req[w].entity
               k == req[w].body.id
           IN /\ resp[w].status \in {200, 404}
              /\ resp[w].status = 200 =>
                   resp[w].body \in Outputs(t) /\ resp[w].body.id = k
              /\ resp[w].status = 404 =>
                   /\ resp[w].body = [detail |-> NotFound(t)]
                   /\ seen[w] = writes => \A c \in Outputs(t) : c.id # k

\* A lookup in a table that has rows has just missed.
C3_Witness ==
    \E w \in Workers :
      /\ Finishing(w, "get")
      /\ resp[w].status = 404
      /\ seen[w] = writes
      /\ created[req[w].entity] # {}

-----------------------------------------------------------------------------
UniqueTables == {"Role", "Music_Gender"}

\* C4: no two Role rows and no two MusicGender rows share a name; a POST
\* answered 201 stored the only row of its name, a POST of a name already
\* stored ends in an error and stores nothing.
C4_UniqueNames ==
    /\ \A t \in UniqueTables :
         \A r1, r2 \in db[t] : r1.name = r2.name => r1 = r2
    /\ RowsAreCreations
    /\ \A w \in Workers :
         (Finishing(w, "create") /\ req[w].entity \in UniqueTables
            /\ resp[w].status # 422) =>
           LET t == req[w].entity
               rows == {r \in db[t] : r.name = req[w].body.name}
           IN /\ resp[w].status \in {201, 500}
              /\ rows # {}
              /\ resp[w].status = 201 => rows = {r \in db[t] : r.id = resp[w].body.id}
              /\ resp[w].status = 500 =>
                   resp[w].body = [detail |-> "Internal Server Error"]

\* A POST /roles of a stored name has just been rejected.
C4_Witness ==
    \E w \in Workers :
      /\ Finishing(w, "create")
      /\ req[w].entity = "Role"
      /\ resp[w].status = 500
      /\ \E r \in db["Role"] : r.name = req[w].body.name

-----------------------------------------------------------------------------
\* C5: every comment GET /comments lists is a created comment with its
\* message; its user and presentation are absent when the POST gave no id
\* and are otherwise the 201 response of the User and of the Presentation
\* the POST named.
C5_CommentRoundTrip ==
    \A w \in Workers :
      (Finishing(w, "list") /\ req[w].entity = "Comment") =>
        /\ \A x \in resp[w].body.items :
             \E c \in created["Comment"] :
               /\ c.output = x
               /\ x.message = c.input.message
               /\ x.user = {u \in Outputs("User") : u.id \in c.input.user_id}
               /\ Cardinality(x.user) = Cardinality(c.input.user_id)
               /\ x.presentation =
                    {p \in Outputs("Presentation") : p.id \in c.input.presentation_id}
               /\ Cardinality(x.presentation) = Cardinality(c.input.presentation_id)
        /\ seen[w] = writes =>
             \A c \in created["Comment"] : c.output \in resp[w].body.items

\* GET /comments is about to return a comment with both associations.
C5_Witness ==
    \E w \in Workers :
      /\ Finishing(w, "list")
      /\ req[w].entity = "Comment"
      /\ \E x \in resp[w].body.items : x.user # None /\ x.presentation # None

-----------------------------------------------------------------------------
\* C6: every User.role_id, Presentation.event_id, Ticket.user_id and
\* Ticket.presentation_id is the id of a stored row; a POST naming a row
\* that does not exist ends in the storage error and stores nothing.
C6_ForeignKeys ==
    /\ \A u \in db["User"] : \E r \in db["Role"] : r.id = u.role_id
    /\ \A p \in db["Presentation"] : \E e \in db["Event"] : e.id = p.event_id
    /\ \A k \in db["Ticket"] :
         /\ \E u \in db["User"] : u.id = k.user_id
         /\ \E p \in db["Presentation"] : p.id = k.presentation_id
    /\ RowsAreCreations
    /\ \A w \in Workers :
         (Finishing(w, "create") /\ req[w].entity \in {"User", "Presentation", "Ticket"}
            /\ resp[w].status # 422) =>
           /\ resp[w].status \in {201, 500}
           /\ resp[w].status = 201 => RefsExist(req[w].entity, req[w].body)
           /\ resp[w].status = 500 =>
                /\ resp[w].body = [detail |-> "Internal Server Error"]
                /\ seen[w] = writes => ~RefsExist(req[w].entity, req[w].body)

\* With a ticket stored, a POST /tickets naming a missing row has failed.
C6_Witness ==
    \E w \in Workers :
      /\ Finishing(w, "create")
      /\ req[w].entity = "Ticket"
      /\ resp[w].status = 500
      /\ db["Ticket"] # {}

-----------------------------------------------------------------------------
-----------------------------------------------------------------------------
\* A session is open exactly while its request is being served, and two
\* requests never hold the same session.
C8_Safe ==
    /\ \A w \in Workers : (pc[w] = "idle") <=> (sess[w] \notin opened)
    /\ opened \subseteq {sess[w] : w \in Workers}
    /\ \A w1, w2 \in Workers :
         (w1 # w2 /\ sess[w1] # 0) => sess[w1] # sess[w2]

\* The session a request is given was given to no request before it.
C8_Fresh ==
    \A w \in Workers :
      (pc[w] = "idle" /\ pc'[w] # "idle") => sess'[w] \notin 0..nreq

\* C8: every request gets a session of its own, open while the request is
\* served and closed once it has completed, and every open session is
\* eventually closed, whether the handler returned, raised 404 or failed in
\* commit.
C8_SessionPerRequest ==
    /\ []C8_Safe
    /\ [][C8_Fresh]_vars
    /\ \A w \in Workers : (sess[w] \in opened) ~> (sess[w] \notin opened)

\* A request that failed in commit has completed and its session is closed,
\* while another request raising 404 still holds its own.
C8_Witness ==
    \E w1, w2 \in Workers :
      /\ pc[w1] = "idle" /\ resp[w1].status = 500 /\ sess[w1] \notin opened
      /\ pc[w2] = "finishing" /\ resp[w2].status = 404 /\ sess[w2] \in opened

-----------------------------------------------------------------------------
\* What one step may do to the tables.
C9_Step ==
    \A t \in Tables :
      /\ db[t] \subseteq db'[t]
      /\ db'[t] # db[t] =>
           /\ Cardinality(db'[t]) = Cardinality(db[t]) + 1
           /\ \E w \in Workers :
                /\ pc[w] = "handling" /\ req[w].op = "create" /\ req[w].entity = t
                /\ pc'[w] = "finishing" /\ resp'[w].status = 201

\* C9: a step never removes or changes a stored row, and adds at most one,
\* through a POST answered 201: every table only grows, by POSTs.
C9_RowsPersist == [][C9_Step]_vars

\* Rows are stored and a later request has failed.
C9_Witness ==
    /\ writes >= 2
    /\ \E w \in Workers : Finishing(w, "create") /\ resp[w].status = 500

-----------------------------------------------------------------------------
NoUniqueField == {"User", "Artist", "Event", "Presentation", "Ticket", "Comment"}

\* C10: for a table without a unique field, a POST is never rejected for
\* repeating a body already stored; POSTs of equal bodies store rows equal
\* in the client's fields and distinct in their ids; every successful POST
\* stores one row in one table.
C10_DuplicateRows ==
    /\ RowsAreCreations
    /\ \A t \in NoUniqueField :
         /\ \A c1, c2 \in created[t] : c1 # c2 => c1.output.id # c2.output.id
         /\ \A c \in created[t] :
              \E row \in db[t] :
                row.id = c.output.id /\ \A f \in DOMAIN c.input : row[f] = c.input[f]
    /\ \A w \in Workers :
         (Finishing(w, "create") /\ req[w].entity \in NoUniqueField
            /\ resp[w].status = 500 /\ seen[w] = writes) =>
           \A c \in created[req[w].entity] : c.input # req[w].body

\* The same body was POSTed twice to one endpoint and stored twice.
C10_Witness ==
    \E t \in NoUniqueField :
      \E c1, c2 \in created[t] : c1 # c2 /\ c1.input = c2.input
=============================================================================
